---- MODULE Spec2Model ----
(***************************************************************************)
(* Model of the trading bot's core components:                             *)
(*   - MultiTimeframeStrategy (src/src/strategy/multi_tf.py): the signal   *)
(*     engine and its single stored Position;                              *)
(*   - TradeComparator (src/trade_matching.py): the greedy matcher of live *)
(*     trades against backtest trades;                                     *)
(*   - run_trading_loop (src/src/trading/executor.py): the live loop that  *)
(*     drives the engine and appends to live_trades.csv;                   *)
(*   - BacktestingStrategy (src/src/backtesting/backtest.py): the adapter  *)
(*     that drives the engine from backtesting.py's bars.                  *)
(*                                                                         *)
(* Numbers.  Prices, quantities and ATR values are integers; a moving      *)
(* average or an ATR is kept as an exact fraction num/den (the code        *)
(* divides a sum by the period), and fractions are compared by cross       *)
(* multiplication.  On the small integers used here the code's float       *)
(* arithmetic is exact for sums and products and order preserving for the  *)
(* quotients.  A confidence is kept in tenths (0.7 is 7, 0.8 is 8).        *)
(* Signal.reason and the log lines are text only and are left out.         *)
(***************************************************************************)
EXTENDS Integers, Sequences, FiniteSets, TLC

VARIABLES
  position,       \* MultiTimeframeStrategy.position: None or a Position
  prevPosition,   \* history: self.position when the last call started
  lastCall,       \* history: the last method called, with its arguments
  lastResult,     \* history: what that call returned (or that it raised)
  bt_df,          \* compare: the backtest trades, one row per trade
  live_df,        \* compare: the live trades, one row per trade
  idx,            \* compare: index label of the next live row of the loop
  matched_indices_bt,  \* compare: index labels of the backtest rows consumed
  metrics,        \* compare: the counters matched, unmatched_live, unmatched_bt
  pairs,          \* history: one (bt_idx, idx) per [MATCH] line logged
  summary,        \* compare: what the last line of the report says
  mpc,            \* compare: "idle", "loop", "done" or "raised"
  current_position,  \* run_trading_loop: None, 'LONG' or 'SHORT'
  live_trades,    \* the rows save_live_trade appended to live_trades.csv
  now,            \* run_trading_loop: the iterations begun, also the clock
  positions_closed,  \* history: the records on_trade_exit returned to the loop
  broker_position,   \* BacktestingStrategy.position: None, 'LONG' or 'SHORT'
  trades_log,     \* BacktestingStrategy.trades_log
  bar             \* BacktestingStrategy: the bars next has been called for

engineVars == <<position, prevPosition, lastCall, lastResult>>

matcherVars == <<bt_df, live_df, idx, matched_indices_bt, metrics, pairs, summary, mpc>>

loopVars == <<current_position, live_trades, now, positions_closed>>

adapterVars == <<broker_position, trades_log, bar>>

vars == <<engineVars, matcherVars, loopVars, adapterVars>>

----------------------------------------------------------------------------
(* Python values *)

\* Python's None (Optional[...] with no value).
None == [some |-> FALSE]

\* An exception propagating out of a call.
Raise(e) == [some |-> FALSE, raised |-> e]

IsRaise(x) == "raised" \in DOMAIN x

\* A float that is the quotient num/den of two integers, den > 0.
Frac(n, d) == [some |-> TRUE, num |-> n, den |-> d]

\* bool(x) for an Optional[float]: None and 0.0 are false.
Truthy(x) == x.some /\ x.num # 0

\* a > b, a < b for two fractions
FracGT(a, b) == a.num * b.den > b.num * a.den
FracLT(a, b) == a.num * b.den < b.num * a.den

\* p > a, p < a for an integer p and a fraction a
NumGT(p, a) == p * a.den > a.num
NumLT(p, a) == p * a.den < a.num

Abs(x) == IF x < 0 THEN -x ELSE x

Max2(x, y) == IF x >= y THEN x ELSE y

\* s[1] + ... + s[n]
RECURSIVE SumTo(_, _)
SumTo(s, n) == IF n = 0 THEN 0 ELSE s[n] + SumTo(s, n - 1)

\* sum(s)
SumSeq(s) == SumTo(s, Len(s))

\* s[-n:] for n > 0: the last n elements, the whole list when it is shorter
LastN(s, n) == IF n >= Len(s) THEN s ELSE SubSeq(s, Len(s) - n + 1, Len(s))

----------------------------------------------------------------------------
(* MultiTimeframeStrategy: parameters *)

fast_ma_period == 9
slow_ma_period == 21
hourly_ma_period == 20
atr_multiplier_sl == 2
atr_multiplier_tp == 3
atr_period == 14

\* self.symbol, the constructor's default
StrategySymbol == "BTCUSDT"

\* TradeDirection, by member name
Directions == {"LONG", "SHORT"}

\* TradeDirection.value
DirectionValue(d) == IF d = "LONG" THEN "BUY" ELSE "SELL"

Signal(timestamp, symbol, direction, confidence) ==
  [some |-> TRUE, timestamp |-> timestamp, symbol |-> symbol,
   direction |-> direction, confidence |-> confidence]

Position(symbol, direction, entry_price, entry_time, quantity, stop_loss, take_profit) ==
  [some |-> TRUE, symbol |-> symbol, direction |-> direction,
   entry_price |-> entry_price, entry_time |-> entry_time, quantity |-> quantity,
   stop_loss |-> stop_loss, take_profit |-> take_profit]

----------------------------------------------------------------------------
(* MultiTimeframeStrategy: indicators *)

calculate_sma(prices, period) ==
  IF Len(prices) < period THEN None
  ELSE Frac(SumSeq(LastN(prices, period)), period)

\* the true range the loop computes for (0-based) index i, i.e. bar i+1 here
TrueRange(highs, lows, closes, i) ==
  LET high_low   == highs[i + 1] - lows[i + 1]
      high_close == Abs(highs[i + 1] - closes[i])
      low_close  == Abs(lows[i + 1] - closes[i])
  IN  Max2(Max2(high_low, high_close), low_close)

calculate_atr(highs, lows, closes) ==
  IF Len(closes) < atr_period THEN None
  ELSE IF \E i \in 1..(Len(closes) - 1) : i + 1 > Len(highs) \/ i + 1 > Len(lows)
       THEN Raise("IndexError")
  ELSE LET tr_values == [i \in 1..(Len(closes) - 1) |-> TrueRange(highs, lows, closes, i)]
       IN  Frac(SumSeq(LastN(tr_values, atr_period)), atr_period)

----------------------------------------------------------------------------
(* MultiTimeframeStrategy: signal rule *)

\* the entry logic without its tests of self.position
SignalRule_any_position(pos, fast_ma, slow_ma, hourly_ma, current_price, timestamp) ==
  IF FracGT(fast_ma, slow_ma) /\ NumGT(current_price, hourly_ma)
  THEN Signal(timestamp, StrategySymbol, "LONG", 7)
  ELSE IF FracLT(fast_ma, slow_ma) /\ NumLT(current_price, hourly_ma)
  THEN Signal(timestamp, StrategySymbol, "SHORT", 7)
  ELSE IF pos.some /\ pos.direction = "LONG" /\ FracLT(fast_ma, slow_ma)
  THEN Signal(timestamp, StrategySymbol, "SHORT", 8)
  ELSE IF pos.some /\ pos.direction = "SHORT" /\ FracGT(fast_ma, slow_ma)
  THEN Signal(timestamp, StrategySymbol, "LONG", 8)
  ELSE None

\* the branches after the insufficient-data test, all four indicators in hand
SignalRule(pos, fast_ma, slow_ma, hourly_ma, current_price, timestamp) ==
  LET exit_logic ==
        IF pos.some /\ pos.direction = "LONG" /\ FracLT(fast_ma, slow_ma)
        THEN Signal(timestamp, StrategySymbol, "SHORT", 8)
        ELSE IF pos.some /\ pos.direction = "SHORT" /\ FracGT(fast_ma, slow_ma)
        THEN Signal(timestamp, StrategySymbol, "LONG", 8)
        ELSE None
  IN  IF FracGT(fast_ma, slow_ma) /\ NumGT(current_price, hourly_ma)
      THEN IF ~pos.some THEN Signal(timestamp, StrategySymbol, "LONG", 7)
           ELSE exit_logic
      ELSE IF FracLT(fast_ma, slow_ma) /\ NumLT(current_price, hourly_ma)
      THEN IF ~pos.some THEN Signal(timestamp, StrategySymbol, "SHORT", 7)
           ELSE exit_logic
      ELSE exit_logic

\* `not all([fast_ma, slow_ma, hourly_ma, atr])`
InsufficientData(fast_ma, slow_ma, hourly_ma, atr) ==
  ~(Truthy(fast_ma) /\ Truthy(slow_ma) /\ Truthy(hourly_ma) /\ Truthy(atr))

generate_signal(pos, closes_15m, highs_15m, lows_15m, closes_1h, timestamp) ==
  LET fast_ma   == calculate_sma(closes_15m, fast_ma_period)
      slow_ma   == calculate_sma(closes_15m, slow_ma_period)
      hourly_ma == calculate_sma(closes_1h, hourly_ma_period)
      atr       == calculate_atr(highs_15m, lows_15m, closes_15m)
  IN  IF IsRaise(atr) THEN atr
      ELSE IF InsufficientData(fast_ma, slow_ma, hourly_ma, atr) THEN None
      ELSE SignalRule(pos, fast_ma, slow_ma, hourly_ma,
                      closes_15m[Len(closes_15m)], timestamp)

----------------------------------------------------------------------------
(* MultiTimeframeStrategy: position lifecycle *)

\* on_trade_entry with the two multipliers exchanged
on_trade_entry_swapped(pos, symbol, direction, entry_price, entry_time, quantity, atr) ==
  LET sl == IF direction = "LONG" THEN entry_price - atr * atr_multiplier_tp
            ELSE entry_price + atr * atr_multiplier_tp
      tp == IF direction = "LONG" THEN entry_price + atr * atr_multiplier_sl
            ELSE entry_price - atr * atr_multiplier_sl
  IN  Position(symbol, direction, entry_price, entry_time, quantity, sl, tp)

on_trade_entry(pos, symbol, direction, entry_price, entry_time, quantity, atr) ==
  LET sl == IF direction = "LONG" THEN entry_price - atr * atr_multiplier_sl
            ELSE entry_price + atr * atr_multiplier_sl
      tp == IF direction = "LONG" THEN entry_price + atr * atr_multiplier_tp
            ELSE entry_price - atr * atr_multiplier_tp
  IN  Position(symbol, direction, entry_price, entry_time, quantity, sl, tp)

\* TradePnl without the negation for SHORT
TradePnl_unsigned(pos, exit_price) ==
  (exit_price - pos.entry_price) * pos.quantity

\* the pnl of the trade record
TradePnl(pos, exit_price) ==
  LET pnl == (exit_price - pos.entry_price) * pos.quantity
  IN  IF pos.direction = "SHORT" THEN -pnl ELSE pnl

\* the dict on_trade_exit returns; {} is [empty |-> TRUE]
EmptyDict == [empty |-> TRUE]

\* the record with the exit price under entry_price and the entry price under
\* exit_price
TradeDict_swapped(pos, exit_price, exit_time) ==
  [empty |-> FALSE,
   symbol |-> pos.symbol, direction |-> DirectionValue(pos.direction),
   entry_price |-> exit_price, entry_time |-> pos.entry_time,
   exit_price |-> pos.entry_price, exit_time |-> exit_time,
   quantity |-> pos.quantity, pnl |-> TradePnl(pos, exit_price),
   sl |-> pos.stop_loss, tp |-> pos.take_profit]

TradeDict(pos, exit_price, exit_time) ==
  [empty |-> FALSE,
   symbol |-> pos.symbol, direction |-> DirectionValue(pos.direction),
   entry_price |-> pos.entry_price, entry_time |-> pos.entry_time,
   exit_price |-> exit_price, exit_time |-> exit_time,
   quantity |-> pos.quantity, pnl |-> TradePnl(pos, exit_price),
   sl |-> pos.stop_loss, tp |-> pos.take_profit]

\* on_trade_exit without its `if not self.position` guard
on_trade_exit_unguarded(pos, exit_price, exit_time) ==
  IF ~pos.some THEN Raise("AttributeError")
  ELSE TradeDict(pos, exit_price, exit_time)

\* what on_trade_exit returns
on_trade_exit_result(pos, exit_price, exit_time) ==
  IF ~pos.some THEN EmptyDict
  ELSE TradeDict(pos, exit_price, exit_time)

\* 'SL', 'TP' or None
Str(s) == [some |-> TRUE, str |-> s]

\* check_sl_tp with < and > for <= and >=
check_sl_tp_strict(pos, current_price) ==
  IF ~pos.some THEN None
  ELSE IF pos.direction = "LONG"
       THEN IF current_price < pos.stop_loss THEN Str("SL")
            ELSE IF current_price > pos.take_profit THEN Str("TP")
            ELSE None
       ELSE IF current_price > pos.stop_loss THEN Str("SL")
            ELSE IF current_price < pos.take_profit THEN Str("TP")
            ELSE None

check_sl_tp(pos, current_price) ==
  IF ~pos.some THEN None
  ELSE IF pos.direction = "LONG"
       THEN IF current_price <= pos.stop_loss THEN Str("SL")
            ELSE IF current_price >= pos.take_profit THEN Str("TP")
            ELSE None
       ELSE IF current_price >= pos.stop_loss THEN Str("SL")
            ELSE IF current_price <= pos.take_profit THEN Str("TP")
            ELSE None

\* a check_sl_tp that closes the position on a breach
check_sl_tp_closing(pos, current_price) ==
  IF check_sl_tp(pos, current_price) = None THEN pos ELSE None

\* self.position after check_sl_tp: the method assigns nothing
check_sl_tp_position(pos, current_price) == pos

----------------------------------------------------------------------------
(* Inputs of the engine's operations *)

MaxPrice == 2
MaxAtr == 1
MaxBar == 3
MaxLen == 22

\* on_trade_entry's symbol argument: the strategy's own symbol and another one
Symbols == {"BTCUSDT", "ETHUSDT"}
EntryPrices == 1..MaxPrice
AtrValues == 0..MaxAtr
Quantities == {1, 2}
EntryTimes == {1}
ExitTimes == {2, 3}
Times == {1, 2}

\* prices for on_trade_exit and check_sl_tp: below, between and above every
\* stop-loss and take-profit an entry above can set
ProbePrices == (1 - atr_multiplier_tp * MaxAtr)..(MaxPrice + atr_multiplier_tp * MaxAtr)

\* n bars: n - 1 bars at a, then the current bar at b
Ser(n, a, b) == [i \in 1..n |-> IF i = n THEN b ELSE a]

\* n bars, all at v
Const(n, v) == [i \in 1..n |-> v]

BarPrices == 1..MaxBar

ClosesLens == {0, fast_ma_period - 1, atr_period, slow_ma_period - 1, slow_ma_period, MaxLen}

Closes15m == {Ser(n, a, b) : n \in ClosesLens, a \in BarPrices, b \in BarPrices}

\* highs and lows: empty, one short of the ATR period, or as long as the closes
HighLowLens(closes) == {0, atr_period - 1, Len(closes)}

Closes1h == {Const(n, v) : n \in {0, hourly_ma_period - 1, hourly_ma_period}, v \in BarPrices}

----------------------------------------------------------------------------
(* The engine's operations as actions *)

GenerateSignalCall(closes_15m, highs_15m, lows_15m, closes_1h, timestamp) ==
  /\ lastCall' = [name |-> "generate_signal", closes_15m |-> closes_15m,
                  highs_15m |-> highs_15m, lows_15m |-> lows_15m,
                  closes_1h |-> closes_1h, timestamp |-> timestamp]
  /\ lastResult' = generate_signal(position, closes_15m, highs_15m, lows_15m,
                                   closes_1h, timestamp)
  /\ prevPosition' = position
  /\ UNCHANGED position
  /\ UNCHANGED <<matcherVars, loopVars, adapterVars>>

\* any argument lists: series of every length class, highs above lows
GenerateSignal ==
  \E c \in Closes15m, c1h \in Closes1h, t \in Times :
    \E nh \in HighLowLens(c), nl \in HighLowLens(c), h \in 1..MaxBar :
      \E l \in 1..h :
        GenerateSignalCall(c, Const(nh, h), Const(nl, l), c1h, t)

\* what a caller with full history passes on a tick: MaxLen bars of the fast
\* timeframe (highs at MaxBar, lows at 1) and hourly_ma_period closes of the
\* confirmation timeframe (at 1)
GenerateSignalTick ==
  \E a \in BarPrices, b \in BarPrices :
    GenerateSignalCall(Ser(MaxLen, a, b), Const(MaxLen, MaxBar), Const(MaxLen, 1),
                       Const(hourly_ma_period, 1), 1)

OnTradeEntry ==
  \E symbol \in Symbols, direction \in Directions, entry_price \in EntryPrices,
     entry_time \in EntryTimes, quantity \in Quantities, atr \in AtrValues :
    /\ position' = on_trade_entry(position, symbol, direction, entry_price, entry_time,
                                  quantity, atr)
    /\ lastCall' = [name |-> "on_trade_entry", symbol |-> symbol, direction |-> direction,
                    entry_price |-> entry_price, entry_time |-> entry_time,
                    quantity |-> quantity, atr |-> atr]
    /\ lastResult' = position'
    /\ prevPosition' = position
    /\ UNCHANGED <<matcherVars, loopVars, adapterVars>>

OnTradeExit ==
  \E exit_price \in ProbePrices, exit_time \in ExitTimes :
    /\ lastCall' = [name |-> "on_trade_exit", exit_price |-> exit_price,
                    exit_time |-> exit_time]
    /\ lastResult' = on_trade_exit_result(position, exit_price, exit_time)
    /\ position' = None
    /\ prevPosition' = position
    /\ UNCHANGED <<matcherVars, loopVars, adapterVars>>

CheckSlTp ==
  \E current_price \in ProbePrices :
    /\ lastCall' = [name |-> "check_sl_tp", current_price |-> current_price]
    /\ lastResult' = check_sl_tp(position, current_price)
    /\ prevPosition' = position
    /\ position' = check_sl_tp_position(position, current_price)
    /\ UNCHANGED <<matcherVars, loopVars, adapterVars>>

Reset ==
  /\ lastCall' = [name |-> "reset"]
  /\ lastResult' = None
  /\ position' = None
  /\ prevPosition' = position
  /\ UNCHANGED <<matcherVars, loopVars, adapterVars>>

\* run_trading_loop is not running
LoopIdle ==
  /\ current_position = None
  /\ live_trades = <<>>
  /\ now = 0
  /\ positions_closed = 0

\* no backtest is running
AdapterIdle ==
  /\ broker_position = None
  /\ trades_log = <<>>
  /\ bar = 0

\* no comparison is running
MatcherIdle ==
  /\ bt_df = <<>>
  /\ live_df = <<>>
  /\ idx = 0
  /\ matched_indices_bt = {}
  /\ metrics = [matched |-> 0, unmatched_live |-> 0, unmatched_bt |-> 0]
  /\ pairs = <<>>
  /\ summary = [kind |-> "none"]
  /\ mpc = "idle"

\* the state after MultiTimeframeStrategy()
Init ==
  /\ position = None
  /\ prevPosition = None
  /\ lastCall = [name |-> "__init__"]
  /\ lastResult = None
  /\ MatcherIdle
  /\ LoopIdle
  /\ AdapterIdle

Next ==
  \/ GenerateSignalTick
  \/ OnTradeEntry
  \/ OnTradeExit
  \/ CheckSlTp
  \/ Reset

Spec == Init /\ [][Next]_vars

\* generate_signal as a function of the stored position and its arguments: the
\* engine is FLAT or holds a LONG or a SHORT position opened by on_trade_entry
SignalPositions ==
  {None} \cup { on_trade_entry(None, StrategySymbol, d, 1, 1, 1, 1) : d \in Directions }

InitSignal ==
  /\ position \in SignalPositions
  /\ prevPosition = position
  /\ lastCall = [name |-> "__init__"]
  /\ lastResult = None
  /\ MatcherIdle
  /\ LoopIdle
  /\ AdapterIdle

\* one call per engine state and argument list
NextSignal == lastCall.name = "__init__" /\ GenerateSignal

SpecSignal == InitSignal /\ [][NextSignal]_vars

----------------------------------------------------------------------------
(* TradeComparator *)

\* a parsed entry time, in seconds
Time(t) == [some |-> TRUE, t |-> t]

\* pandas' missing timestamp: it is not None, and no comparison with it holds
NaT == [some |-> FALSE, nat |-> TRUE]

\* what abs() of a NaT does is decided inside pandas: it returns NaT or it
\* raises TypeError, and both are admitted
AbsNaT == {"NaT", "TypeError"}

\* a row of a trades frame: the columns compare reads, dt being the value the
\* loop finds in the dt column (a Time, None or NaT)
Row(symbol, direction, entry_price, dt) ==
  [symbol |-> symbol, direction |-> direction, entry_price |-> entry_price, dt |-> dt]

\* a tolerance of one minute
time_tol_one_minute == 1 * 60

\* self.time_tol, timedelta(minutes=5), in seconds
time_tol == 5 * 60

\* self.price_tol, 0.02
price_tol == Frac(2, 100)

\* the weight of the relative price difference in the score
ScoreWeight == 10000

\* `<` where the tolerance test has `<=`
FracLE_strict(a, b) == a.num * b.den < b.num * a.den

\* a <= b
FracLE(a, b) == a.num * b.den <= b.num * a.den

\* min_score before any candidate was found: float('inf')
Inf == [some |-> FALSE, inf |-> TRUE]

\* the first row that passes both tests is kept
ScoreLT_first(score, min_score) == ~min_score.some

\* score < min_score
ScoreLT(score, min_score) == IF ~min_score.some THEN TRUE ELSE FracLT(score, min_score)

\* symbol only: the filter of bt_df without its direction term
SameGroup_symbol_only(bt_trade, live_trade) ==
  bt_trade.symbol = live_trade.symbol

\* the filter that makes `candidates` out of bt_df
SameGroup(bt_trade, live_trade) ==
  /\ bt_trade.symbol = live_trade.symbol
  /\ bt_trade.direction = live_trade.direction

\* the inner loop without its test of matched_indices_bt
Consumed_never(bt_idx, matched) == FALSE

\* `if bt_idx in matched_indices_bt: continue`
Consumed(bt_idx, matched) == bt_idx \in matched

\* price_diff / price_avg as a fraction with a positive denominator; the caller
\* has excluded price_avg = 0
PricePctDiff(live_price, bt_price) ==
  LET price_diff == Abs(live_price - bt_price)
      price_sum  == live_price + bt_price
  IN  IF price_sum > 0 THEN Frac(2 * price_diff, price_sum)
      ELSE Frac(0 - 2 * price_diff, 0 - price_sum)

\* time_diff.total_seconds() + price_pct_diff * 10000
Score(time_diff, price_pct_diff) ==
  Frac(time_diff * price_pct_diff.den + ScoreWeight * price_pct_diff.num,
       price_pct_diff.den)

\* the loop's running result for one live trade
NoMatch == [match_found |-> FALSE, best_match |-> 0, min_score |-> Inf]

\* nothing of the summary is logged yet
NoSummary == [kind |-> "none"]

\* The inner loop over bt_df from index label bt_idx on, `best` being the running
\* result: the result after the last row, or the exception that ended the loop.
\* The row with index label i is bt[i + 1]; abs_nat is what abs() of a NaT does.
RECURSIVE ScanBacktest(_, _, _, _, _, _)
ScanBacktest(bt, matched, live_trade, bt_idx, best, abs_nat) ==
  IF bt_idx >= Len(bt) THEN best
  ELSE LET bt_trade == bt[bt_idx + 1]
           skip     == ScanBacktest(bt, matched, live_trade, bt_idx + 1, best, abs_nat)
       IN  IF ~SameGroup(bt_trade, live_trade) THEN skip
           ELSE IF Consumed(bt_idx, matched) THEN skip
           ELSE IF bt_trade.dt = None THEN skip
           ELSE IF ~(live_trade.dt.some /\ bt_trade.dt.some)
           THEN \* lt_time - bt_time is NaT, and NaT <= self.time_tol is False
                IF abs_nat = "TypeError" THEN Raise("TypeError") ELSE skip
           ELSE LET time_diff == Abs(live_trade.dt.t - bt_trade.dt.t)
                IN  IF ~(time_diff <= time_tol) THEN skip
                    ELSE IF live_trade.entry_price + bt_trade.entry_price = 0
                    THEN Raise("ZeroDivisionError")
                    ELSE LET price_pct_diff ==
                               PricePctDiff(live_trade.entry_price, bt_trade.entry_price)
                             score == Score(time_diff, price_pct_diff)
                         IN  IF ~FracLE(price_pct_diff, price_tol) THEN skip
                             ELSE IF ScoreLT(score, best.min_score)
                             THEN ScanBacktest(bt, matched, live_trade, bt_idx + 1,
                                               [match_found |-> TRUE, best_match |-> bt_idx,
                                                min_score |-> score], abs_nat)
                             ELSE skip

\* one iteration of `for idx, live_trade in live_df.iterrows()`
MatchStep ==
  /\ mpc = "loop"
  /\ idx < Len(live_df)
  /\ LET live_trade == live_df[idx + 1]
     IN  IF live_trade.dt = None
         THEN \* lt_time is None: continue
              /\ idx' = idx + 1
              /\ UNCHANGED <<matched_indices_bt, metrics, pairs, summary, mpc>>
         ELSE \E abs_nat \in AbsNaT :
              LET best == ScanBacktest(bt_df, matched_indices_bt, live_trade, 0, NoMatch,
                                       abs_nat)
              IN  IF IsRaise(best)
                  THEN \* nothing catches it: compare ends with the traceback
                       /\ mpc' = "raised"
                       /\ summary' = [kind |-> "traceback", error |-> best.raised]
                       /\ UNCHANGED <<idx, matched_indices_bt, metrics, pairs>>
                  ELSE IF best.match_found
                  THEN /\ metrics' = [metrics EXCEPT !.matched = @ + 1]
                       /\ matched_indices_bt' = matched_indices_bt \cup {best.best_match}
                       /\ pairs' = Append(pairs, [bt_idx |-> best.best_match, idx |-> idx])
                       /\ idx' = idx + 1
                       /\ UNCHANGED <<summary, mpc>>
                  ELSE /\ metrics' = [metrics EXCEPT !.unmatched_live = @ + 1]
                       /\ idx' = idx + 1
                       /\ UNCHANGED <<matched_indices_bt, pairs, summary, mpc>>
  /\ UNCHANGED <<bt_df, live_df>>
  /\ UNCHANGED <<engineVars, loopVars, adapterVars>>

\* the match rate as a fraction, not as a percentage
MatchRate_fraction(matched, n) == Frac(matched, n)

\* matched / len(live_df) * 100
MatchRate(matched, n) == Frac(matched * 100, n)

\* after the loop: unmatched_bt and the summary, whose last line is the match
\* rate or, without live trades, "No live trades to match."
MatchFinish ==
  /\ mpc = "loop"
  /\ idx = Len(live_df)
  /\ metrics' = [metrics EXCEPT !.unmatched_bt = Len(bt_df) - Cardinality(matched_indices_bt)]
  /\ summary' = IF Len(live_df) > 0
                THEN [kind |-> "match_rate",
                      match_rate |-> MatchRate(metrics.matched, Len(live_df))]
                ELSE [kind |-> "no_live_trades"]
  /\ mpc' = "done"
  /\ UNCHANGED <<bt_df, live_df, idx, matched_indices_bt, pairs>>
  /\ UNCHANGED <<engineVars, loopVars, adapterVars>>

----------------------------------------------------------------------------
(* Inputs of a comparison *)

MaxBt == 2
MaxLive == 2

MatchSymbols == {"BTCUSDT", "ETHUSDT"}

\* the direction column holds TradeDirection.value
MatchDirections == {"BUY", "SELL"}

\* (entry_price, entry time in seconds): two trades within both tolerances of
\* each other
MatchPoints == {<<100, 0>>, <<101, 120>>}

MatchRows ==
  {Row(sy, d, p[1], Time(p[2])) : sy \in MatchSymbols, d \in MatchDirections, p \in MatchPoints}

SeqsUpTo(S, n) == UNION {[1..k -> S] : k \in 0..n}

\* compare() after load_trades returned the two frames
InitMatch ==
  /\ position = None
  /\ prevPosition = None
  /\ lastCall = [name |-> "__init__"]
  /\ lastResult = None
  /\ bt_df \in SeqsUpTo(MatchRows, MaxBt)
  /\ live_df \in SeqsUpTo(MatchRows, MaxLive)
  /\ idx = 0
  /\ matched_indices_bt = {}
  /\ metrics = [matched |-> 0, unmatched_live |-> 0, unmatched_bt |-> 0]
  /\ pairs = <<>>
  /\ summary = NoSummary
  /\ mpc = "loop"
  /\ LoopIdle
  /\ AdapterIdle

NextMatch ==
  \/ MatchStep
  \/ MatchFinish

SpecMatch == InitMatch /\ [][NextMatch]_vars

\* (entry_price in units of 0.5, entry time in seconds) around the two
\* tolerances. From <<200, 0>>: 120 s is within time_tol, 300 s is at it and
\* 301 s beyond it; 201 is within price_tol of 200, 99 and 101 are beyond it,
\* and 99 and 101 are exactly price_tol from each other (2 / 100).
TolPoints ==
  {<<200, 0>>, <<201, 120>>, <<200, 300>>, <<200, 301>>, <<99, 0>>, <<101, 0>>}

\* trades of one symbol and one direction
TolRows == {Row("BTCUSDT", "BUY", p[1], Time(p[2])) : p \in TolPoints}

InitMatchTol ==
  /\ position = None
  /\ prevPosition = None
  /\ lastCall = [name |-> "__init__"]
  /\ lastResult = None
  /\ bt_df \in SeqsUpTo(TolRows, MaxBt)
  /\ live_df \in SeqsUpTo(TolRows, MaxLive)
  /\ idx = 0
  /\ matched_indices_bt = {}
  /\ metrics = [matched |-> 0, unmatched_live |-> 0, unmatched_bt |-> 0]
  /\ pairs = <<>>
  /\ summary = NoSummary
  /\ mpc = "loop"
  /\ LoopIdle
  /\ AdapterIdle

SpecMatchTol == InitMatchTol /\ [][NextMatch]_vars

\* The dt column load_trades adds to a frame, `parsed` holding in dt what
\* parse_time returned for each row (a Time, or None). Series.apply hands the
\* values to pandas, which keeps them as they are in a column where no entry
\* time was parsed and makes a datetime column, NaT standing for None, where
\* some was.
DtColumn(parsed) ==
  [i \in DOMAIN parsed |->
     IF parsed[i].dt.some THEN parsed[i]
     ELSE [parsed[i] EXCEPT !.dt = IF \E k \in DOMAIN parsed : parsed[k].dt.some
                                  THEN NaT ELSE None]]

\* trades of one symbol and one direction as the csv files may hold them: an
\* entry_time that parses or not, an entry_price that is 0 (what
\* save_backtest_trades writes for a trade without EntryPrice) or not
LoadRows ==
  {Row("BTCUSDT", "BUY", price, dt) : price \in {0, 200}, dt \in {Time(0), Time(120), None}}

InitMatchLoad ==
  /\ position = None
  /\ prevPosition = None
  /\ lastCall = [name |-> "__init__"]
  /\ lastResult = None
  /\ bt_df \in {DtColumn(parsed) : parsed \in SeqsUpTo(LoadRows, MaxBt)}
  /\ live_df \in {DtColumn(parsed) : parsed \in SeqsUpTo(LoadRows, MaxLive)}
  /\ idx = 0
  /\ matched_indices_bt = {}
  /\ metrics = [matched |-> 0, unmatched_live |-> 0, unmatched_bt |-> 0]
  /\ pairs = <<>>
  /\ summary = NoSummary
  /\ mpc = "loop"
  /\ LoopIdle
  /\ AdapterIdle

SpecMatchLoad == InitMatchLoad /\ [][NextMatch]_vars

----------------------------------------------------------------------------
(* run_trading_loop *)

\* quantity=0.001, in units of 0.001
LoopQuantity == 1

\* atr=500.0
LoopAtr == 500

MaxTicks == 3

\* the keys of the dict on_trade_exit returns, in their order
TradeRecordColumns ==
  <<"symbol", "direction", "entry_price", "entry_time", "exit_price", "exit_time",
    "quantity", "pnl", "sl", "tp">>

\* the keys of the dict the loop builds after an entry, in their order
EntryColumns ==
  <<"entry_time", "symbol", "direction", "entry_price", "quantity", "sl", "tp">>

\* save_live_trade: one row appended to the file, without a header once the
\* file exists; a row is its values in the order of the dict's keys
save_live_trade(rows, columns, trade_dict) ==
  Append(rows, [columns |-> columns, values |-> trade_dict])

\* the dict saved after an entry
EntryDict(entry_trade, current_time, signal) ==
  [entry_time |-> current_time, symbol |-> StrategySymbol,
   direction |-> DirectionValue(signal.direction),
   entry_price |-> entry_trade.entry_price, quantity |-> entry_trade.quantity,
   sl |-> entry_trade.stop_loss, tp |-> entry_trade.take_profit]

\* get_symbol_price: a price, or None after a failed request
LoopPrices == {None} \cup {[some |-> TRUE, price |-> p] : p \in EntryPrices}

\* place_order for the entry: None after a failed request, or the exchange's
\* answer: an order not filled, an order filled in part or in full with its
\* first fill's price, or a filled order that lists no fill
Orders ==
  {None, [some |-> TRUE, status |-> "NEW", fills |-> <<>>],
   [some |-> TRUE, status |-> "FILLED", fills |-> <<>>]}
    \cup {[some |-> TRUE, status |-> st, fills |-> <<p>>] :
            st \in {"FILLED", "PARTIALLY_FILLED"}, p \in EntryPrices}

\* the locals and the engine as an iteration goes on; raised: an exception has
\* sent the iteration to `except Exception`
LoopState(pos, cur, rows, closed, exited, entered, raised) ==
  [position |-> pos, current_position |-> cur, live_trades |-> rows,
   positions_closed |-> closed, exited |-> exited, entered |-> entered,
   raised |-> raised]

\* `if current_position:` with a signal against it: the exit order (whose result
\* is not read), on_trade_exit, the save of its record, current_position = None
ExitStage(st, signal, current_price, current_time, save_ok) ==
  LET cur == st.current_position
      reversal == /\ cur.some
                  /\ \/ (cur.str = "LONG" /\ signal.direction = "SHORT")
                     \/ (cur.str = "SHORT" /\ signal.direction = "LONG")
  IN  IF ~reversal THEN st
      ELSE IF ~st.position.some
      THEN \* on_trade_exit returns {}: nothing is saved
           [st EXCEPT !.current_position = None]
      ELSE IF ~current_price.some
      THEN \* None - entry_price in on_trade_exit: TypeError
           [st EXCEPT !.raised = TRUE]
      ELSE LET exit_trade == on_trade_exit_result(st.position, current_price.price,
                                                  current_time)
               closed == [st EXCEPT !.position = None, !.exited = TRUE,
                                    !.positions_closed = @ + 1]
           IN  IF ~save_ok THEN [closed EXCEPT !.raised = TRUE]
               ELSE [closed EXCEPT
                       !.live_trades = save_live_trade(@, TradeRecordColumns, exit_trade),
                       !.current_position = None]

\* the entry logic without its test of the order's status
EntryStage_any_status(st, signal, order, current_time, save_ok) ==
  IF st.raised \/ st.current_position.some THEN st
  ELSE IF ~order.some THEN st
  ELSE IF order.fills = <<>> THEN [st EXCEPT !.raised = TRUE]
  ELSE LET entry_trade == on_trade_entry(st.position, StrategySymbol, signal.direction,
                                         order.fills[1], current_time, LoopQuantity,
                                         LoopAtr)
           opened == [st EXCEPT !.position = entry_trade, !.entered = TRUE]
       IN  IF ~save_ok THEN [opened EXCEPT !.raised = TRUE]
           ELSE [opened EXCEPT
                   !.live_trades = save_live_trade(@, EntryColumns,
                                     EntryDict(entry_trade, current_time, signal)),
                   !.current_position = Str(signal.direction)]

\* `if not current_position:`: the entry order and, if it is FILLED,
\* on_trade_entry, the save of the entry's row, current_position
EntryStage(st, signal, order, current_time, save_ok) ==
  IF st.raised \/ st.current_position.some THEN st
  ELSE IF ~(order.some /\ order.status = "FILLED") THEN st
  ELSE IF order.fills = <<>>
  THEN \* order['fills'][0]: IndexError
       [st EXCEPT !.raised = TRUE]
  ELSE LET entry_trade == on_trade_entry(st.position, StrategySymbol, signal.direction,
                                         order.fills[1], current_time, LoopQuantity,
                                         LoopAtr)
           opened == [st EXCEPT !.position = entry_trade, !.entered = TRUE]
       IN  IF ~save_ok THEN [opened EXCEPT !.raised = TRUE]
           ELSE [opened EXCEPT
                   !.live_trades = save_live_trade(@, EntryColumns,
                                     EntryDict(entry_trade, current_time, signal)),
                   !.current_position = Str(signal.direction)]

\* what generate_signal may return to the loop when the engine holds pos: the
\* bars are those of GenerateSignalTick, with the hourly closes at 2 so that
\* the close may be on either side of their average
LoopSignals(pos, timestamp) ==
  {generate_signal(pos, Ser(MaxLen, a, b), Const(MaxLen, MaxBar), Const(MaxLen, 1),
                   Const(hourly_ma_period, 2), timestamp) :
     a \in BarPrices, b \in BarPrices}

\* one iteration of `while True`, from the fetch of the klines to the sleep
TradingCycle ==
  /\ now < MaxTicks
  /\ now' = now + 1
  /\ prevPosition' = position
  /\ lastResult' = None
  /\ \E klines \in BOOLEAN :
       IF ~klines
       THEN \* get_klines returned nothing: sleep and continue
            /\ lastCall' = [name |-> "run_trading_loop", signal |-> None, order |-> None,
                            was |-> current_position, rows |-> Len(live_trades),
                            exited |-> FALSE, entered |-> FALSE, raised |-> FALSE]
            /\ UNCHANGED <<position, current_position, live_trades, positions_closed>>
       ELSE \E signal \in LoopSignals(position, now), current_price \in LoopPrices,
               order \in Orders, save_exit_ok \in BOOLEAN, save_entry_ok \in BOOLEAN :
              LET start == LoopState(position, current_position, live_trades,
                                     positions_closed, FALSE, FALSE, FALSE)
                  st    == IF ~signal.some THEN start
                           ELSE EntryStage(ExitStage(start, signal, current_price, now,
                                                     save_exit_ok),
                                           signal, order, now, save_entry_ok)
              IN  /\ position' = st.position
                  /\ current_position' = st.current_position
                  /\ live_trades' = st.live_trades
                  /\ positions_closed' = st.positions_closed
                  /\ lastCall' = [name |-> "run_trading_loop", signal |-> signal,
                                  order |-> order, was |-> current_position,
                                  rows |-> Len(live_trades),
                                  exited |-> st.exited, entered |-> st.entered,
                                  raised |-> st.raised]
  /\ UNCHANGED <<matcherVars, adapterVars>>

\* run_trading_loop up to its `while True`
InitLoop ==
  /\ position = None
  /\ prevPosition = None
  /\ lastCall = [name |-> "__init__"]
  /\ lastResult = None
  /\ MatcherIdle
  /\ LoopIdle
  /\ AdapterIdle

NextLoop == TradingCycle

SpecLoop == InitLoop /\ [][NextLoop]_vars

----------------------------------------------------------------------------
(* The backtest adapter: BacktestingStrategy.next drives the engine *)

\* the atr the adapter passes to on_trade_entry
BacktestAtr == 0

MaxBars == 3

\* one call of next, for the bar that has just closed.  The broker executes
\* the market order of buy or sell at the next bar's open, before next is
\* called again, or cancels it there for lack of margin (filled); the order of
\* position.close() needs no margin.  quantity is 95% of the equity over the
\* price, whatever the equity is by then.
BacktestingStrategyNext ==
  /\ bar < MaxBars
  /\ bar' = bar + 1
  /\ prevPosition' = position
  /\ lastResult' = None
  /\ \E signal \in LoopSignals(position, bar + 1), current_price \in EntryPrices,
        quantity \in Quantities, filled \in BOOLEAN :
       LET current_time == bar + 1
           flat    == ~broker_position.some
           entry   == signal.some /\ flat
           closing == /\ signal.some
                      /\ ~flat
                      /\ \/ (signal.direction = "SHORT" /\ broker_position.str = "LONG")
                         \/ (signal.direction = "LONG" /\ broker_position.str = "SHORT")
           exit_dict == on_trade_exit_result(position, current_price, current_time)
       IN  /\ position' =
                 IF entry
                 THEN on_trade_entry(position, StrategySymbol, signal.direction,
                                     current_price, current_time, quantity, BacktestAtr)
                 ELSE IF closing THEN None
                 ELSE position
           /\ trades_log' = IF closing /\ position.some
                            THEN Append(trades_log, exit_dict)
                            ELSE trades_log
           /\ broker_position' =
                 IF entry THEN (IF filled THEN Str(signal.direction) ELSE None)
                 ELSE IF closing THEN None
                 ELSE broker_position
           /\ lastCall' = [name |-> "next", signal |-> signal,
                           current_price |-> current_price, quantity |-> quantity,
                           entered |-> entry, exited |-> closing]
  /\ UNCHANGED <<matcherVars, loopVars>>

\* BacktestingStrategy.__init__: a new engine, an empty trades_log
InitBacktest ==
  /\ position = None
  /\ prevPosition = None
  /\ lastCall = [name |-> "__init__"]
  /\ lastResult = None
  /\ MatcherIdle
  /\ LoopIdle
  /\ AdapterIdle

NextBacktest == BacktestingStrategyNext

SpecBacktest == InitBacktest /\ [][NextBacktest]_vars

----------------------------------------------------------------------------
(* Claims about the signal engine *)

\* C1: on_trade_entry called while a position is open is a no-op: the stored
\* Position is the one the first call stored, whatever the second call's
\* arguments.
C1_SecondEntryIsNoOp ==
  (lastCall.name = "on_trade_entry" /\ prevPosition.some) => position = prevPosition

\* C2: no single operation takes the engine from LONG directly to SHORT or
\* from SHORT directly to LONG.
C2_NoDirectReversal ==
  (prevPosition.some /\ position.some) => position.direction = prevPosition.direction

\* C3: on_trade_exit with no position open raises nothing, returns the empty
\* dict and leaves the engine FLAT, for every exit_price and exit_time.
C3_ExitWhenFlat ==
  (lastCall.name = "on_trade_exit" /\ ~prevPosition.some) =>
    (~IsRaise(lastResult) /\ lastResult = EmptyDict /\ position = None)

\* C3 witness: an exit was called on a FLAT engine and returned the empty dict.
C3_Witness ==
  /\ lastCall.name = "on_trade_exit"
  /\ ~prevPosition.some
  /\ lastResult = EmptyDict

\* C4: the pnl of the record on_trade_exit returns is
\* (exit_price - entry_price) * quantity for LONG and its negation for SHORT.
C4_Pnl ==
  (lastCall.name = "on_trade_exit" /\ prevPosition.some) =>
    LET gross == (lastCall.exit_price - prevPosition.entry_price) * prevPosition.quantity
    IN  lastResult.pnl = IF prevPosition.direction = "LONG" THEN gross ELSE 0 - gross

\* C4 witness: a SHORT position entered at 1 with quantity 2 is closed at 2,
\* a loss of 2.
C4_Witness ==
  /\ lastCall.name = "on_trade_exit"
  /\ prevPosition.some
  /\ prevPosition.direction = "SHORT"
  /\ prevPosition.entry_price = 1
  /\ prevPosition.quantity = 2
  /\ lastCall.exit_price = 2
  /\ lastResult.pnl = 0 - 2

\* C5: check_sl_tp returns, for LONG, "SL" if price <= stop_loss, else "TP" if
\* price >= take_profit, else None; for SHORT, "SL" if price >= stop_loss, else
\* "TP" if price <= take_profit, else None; None with no position. (The two
\* conditions are read in the order given: where both hold, stop_loss being at or
\* beyond take_profit, the first one decides.)
C5_CheckSlTp ==
  lastCall.name = "check_sl_tp" =>
    LET p   == lastCall.current_price
        pos == prevPosition
    IN  IF ~pos.some THEN lastResult = None
        ELSE IF pos.direction = "LONG"
        THEN /\ p <= pos.stop_loss => lastResult = Str("SL")
             /\ (p > pos.stop_loss /\ p >= pos.take_profit) => lastResult = Str("TP")
             /\ (p > pos.stop_loss /\ p < pos.take_profit) => lastResult = None
        ELSE /\ p >= pos.stop_loss => lastResult = Str("SL")
             /\ (p < pos.stop_loss /\ p <= pos.take_profit) => lastResult = Str("TP")
             /\ (p < pos.stop_loss /\ p > pos.take_profit) => lastResult = None

\* C5 witness: a LONG position with stop_loss < take_profit is probed at exactly
\* its stop_loss and the answer is "SL".
C5_Witness ==
  /\ lastCall.name = "check_sl_tp"
  /\ position.some
  /\ position.direction = "LONG"
  /\ position.stop_loss < position.take_profit
  /\ lastCall.current_price = position.stop_loss
  /\ lastResult = Str("SL")

\* some series is shorter than the period of an indicator that reads it
SomeSeriesShort(call) ==
  \/ Len(call.closes_15m) < slow_ma_period
  \/ Len(call.highs_15m) < atr_period
  \/ Len(call.lows_15m) < atr_period
  \/ Len(call.closes_1h) < hourly_ma_period

\* every indicator has the history it reads
FullHistory(call) ==
  /\ Len(call.closes_15m) >= slow_ma_period
  /\ Len(call.highs_15m) >= Len(call.closes_15m)
  /\ Len(call.lows_15m) >= Len(call.closes_15m)
  /\ Len(call.closes_1h) >= hourly_ma_period

\* C6: generate_signal with any input series shorter than the period of an
\* indicator that needs it returns no signal and does not raise.
C6_ShortSeriesNoSignal ==
  (lastCall.name = "generate_signal" /\ SomeSeriesShort(lastCall)) =>
    (~IsRaise(lastResult) /\ lastResult = None)

\* C7: with full history and no position open, fast-MA > slow-MA and close >
\* confirmation-MA give a LONG signal of confidence 0.7, fast-MA < slow-MA and
\* close < confirmation-MA a SHORT signal of confidence 0.7, whatever the values
\* of the indicators.
C7_EntrySignal ==
  (lastCall.name = "generate_signal" /\ FullHistory(lastCall) /\ ~position.some) =>
    LET fast_ma   == calculate_sma(lastCall.closes_15m, fast_ma_period)
        slow_ma   == calculate_sma(lastCall.closes_15m, slow_ma_period)
        hourly_ma == calculate_sma(lastCall.closes_1h, hourly_ma_period)
        close     == lastCall.closes_15m[Len(lastCall.closes_15m)]
    IN  /\ (FracGT(fast_ma, slow_ma) /\ NumGT(close, hourly_ma)) =>
             lastResult = Signal(lastCall.timestamp, StrategySymbol, "LONG", 7)
        /\ (FracLT(fast_ma, slow_ma) /\ NumLT(close, hourly_ma)) =>
             lastResult = Signal(lastCall.timestamp, StrategySymbol, "SHORT", 7)

\* C8: with full history, a LONG position and fast-MA < slow-MA give an exit
\* signal of direction SHORT and confidence 0.8, a SHORT position and
\* fast-MA > slow-MA one of direction LONG and confidence 0.8, whatever the close
\* is against the confirmation MA.
C8_ExitSignal ==
  (lastCall.name = "generate_signal" /\ FullHistory(lastCall) /\ position.some) =>
    LET fast_ma == calculate_sma(lastCall.closes_15m, fast_ma_period)
        slow_ma == calculate_sma(lastCall.closes_15m, slow_ma_period)
    IN  /\ (position.direction = "LONG" /\ FracLT(fast_ma, slow_ma)) =>
             lastResult = Signal(lastCall.timestamp, StrategySymbol, "SHORT", 8)
        /\ (position.direction = "SHORT" /\ FracGT(fast_ma, slow_ma)) =>
             lastResult = Signal(lastCall.timestamp, StrategySymbol, "LONG", 8)

\* C20: on_trade_exit leaves the engine FLAT. With a position open it returns
\* one record, whose symbol, entry_price, entry_time, quantity, sl and tp are
\* the position's, whose direction is the position's direction (BUY for LONG,
\* SELL for SHORT) and whose exit_price and exit_time are the arguments; with
\* none open, as right after an exit, it returns the empty dict. So the
\* records returned are as many as the positions closed.
C20_ExitRecord ==
  lastCall.name = "on_trade_exit" =>
    /\ position = None
    /\ ~prevPosition.some => lastResult = EmptyDict
    /\ prevPosition.some =>
         /\ lastResult # EmptyDict
         /\ lastResult.symbol = prevPosition.symbol
         /\ lastResult.direction = (IF prevPosition.direction = "LONG" THEN "BUY" ELSE "SELL")
         /\ lastResult.entry_price = prevPosition.entry_price
         /\ lastResult.entry_time = prevPosition.entry_time
         /\ lastResult.quantity = prevPosition.quantity
         /\ lastResult.sl = prevPosition.stop_loss
         /\ lastResult.tp = prevPosition.take_profit
         /\ lastResult.exit_price = lastCall.exit_price
         /\ lastResult.exit_time = lastCall.exit_time

\* C20 witness: a SHORT position entered at 2 was closed at 1 and the record
\* says so.
C20_Witness ==
  /\ lastCall.name = "on_trade_exit"
  /\ prevPosition.some
  /\ prevPosition.direction = "SHORT"
  /\ prevPosition.entry_price = 2
  /\ lastCall.exit_price = 1
  /\ lastResult.direction = "SELL"
  /\ lastResult.entry_price = 2
  /\ lastResult.exit_price = 1
  /\ position = None

\* C21: on_trade_entry on a FLAT engine stores a Position with the symbol,
\* direction, entry_price, entry_time and quantity given, with
\* stop_loss = entry_price - 2 * atr and take_profit = entry_price + 3 * atr for
\* LONG, and stop_loss = entry_price + 2 * atr and
\* take_profit = entry_price - 3 * atr for SHORT.
C21_EntryStoresPosition ==
  (lastCall.name = "on_trade_entry" /\ ~prevPosition.some) =>
    /\ position.some
    /\ position.symbol = lastCall.symbol
    /\ position.direction = lastCall.direction
    /\ position.entry_price = lastCall.entry_price
    /\ position.entry_time = lastCall.entry_time
    /\ position.quantity = lastCall.quantity
    /\ lastCall.direction = "LONG" =>
         /\ position.stop_loss = lastCall.entry_price - 2 * lastCall.atr
         /\ position.take_profit = lastCall.entry_price + 3 * lastCall.atr
    /\ lastCall.direction = "SHORT" =>
         /\ position.stop_loss = lastCall.entry_price + 2 * lastCall.atr
         /\ position.take_profit = lastCall.entry_price - 3 * lastCall.atr

\* C21 witness: a SHORT entry at 2 with an ATR of 1 on a FLAT engine stored a
\* position with stop_loss 4 and take_profit -1.
C21_Witness ==
  /\ lastCall.name = "on_trade_entry"
  /\ ~prevPosition.some
  /\ lastCall.direction = "SHORT"
  /\ lastCall.entry_price = 2
  /\ lastCall.atr = 1
  /\ position.stop_loss = 4
  /\ position.take_profit = 0 - 1

\* the true range of bar k (counted from 1) of a call's fast series:
\* max(high - low, |high - previous close|, |low - previous close|)
BarTrueRange(call, k) ==
  LET high == call.highs_15m[k]
      low  == call.lows_15m[k]
      prev == call.closes_15m[k - 1]
  IN  Max2(high - low, Max2(Abs(high - prev), Abs(low - prev)))

\* C22: whenever calculate_atr returns a value, atr_period true ranges could
\* be formed (there are more than atr_period closes) and the value is the
\* mean of the true ranges of the last atr_period bars.
C22_AtrIsMeanOfPeriodTrueRanges ==
  lastCall.name = "generate_signal" =>
    LET atr == calculate_atr(lastCall.highs_15m, lastCall.lows_15m, lastCall.closes_15m)
        n   == Len(lastCall.closes_15m)
    IN  "num" \in DOMAIN atr =>
          /\ n - 1 >= atr_period
          /\ atr.num * atr_period =
               atr.den * SumSeq([j \in 1..atr_period |->
                                   BarTrueRange(lastCall, n - atr_period + j)])

\* C23: after generate_signal and after check_sl_tp the stored Position is
\* what it was before the call, whatever the call returned; a call after which
\* it differs is an on_trade_entry, an on_trade_exit or a reset.
C23_QueriesKeepPosition ==
  /\ lastCall.name \in {"generate_signal", "check_sl_tp"} => position = prevPosition
  /\ position # prevPosition => lastCall.name \in {"on_trade_entry", "on_trade_exit", "reset"}

\* C23 witness: check_sl_tp answered "TP" for an open position, which is
\* still stored.
C23_Witness ==
  /\ lastCall.name = "check_sl_tp"
  /\ lastResult = Str("TP")
  /\ position.some
  /\ position = prevPosition


\* C24: a signal returned while a position is open has confidence 0.8 and the
\* direction opposite to the position's, and the fast MA is on the side of
\* the slow MA that ends the position; a signal returned while FLAT has
\* confidence 0.7, and the fast MA against the slow MA and the close against
\* the confirmation MA are both on the side of its direction. In every other
\* case no signal is returned.
C24_SignalFitsPosition ==
  (lastCall.name = "generate_signal" /\ lastResult.some) =>
    LET fast_ma   == calculate_sma(lastCall.closes_15m, fast_ma_period)
        slow_ma   == calculate_sma(lastCall.closes_15m, slow_ma_period)
        hourly_ma == calculate_sma(lastCall.closes_1h, hourly_ma_period)
        close     == lastCall.closes_15m[Len(lastCall.closes_15m)]
        up        == fast_ma.num * slow_ma.den > slow_ma.num * fast_ma.den
        down      == fast_ma.num * slow_ma.den < slow_ma.num * fast_ma.den
    IN  IF position.some
        THEN /\ lastResult.confidence = 8
             /\ position.direction = "LONG" => (lastResult.direction = "SHORT" /\ down)
             /\ position.direction = "SHORT" => (lastResult.direction = "LONG" /\ up)
        ELSE /\ lastResult.confidence = 7
             /\ lastResult.direction = "LONG" =>
                  (up /\ close * hourly_ma.den > hourly_ma.num)
             /\ lastResult.direction = "SHORT" =>
                  (down /\ close * hourly_ma.den < hourly_ma.num)

\* C24 witness: with a LONG position open, the fast MA below the slow MA and
\* the close below the confirmation MA, the signal returned is the exit
\* signal, not the SHORT entry signal.
C24_Witness ==
  /\ lastCall.name = "generate_signal"
  /\ position.some
  /\ position.direction = "LONG"
  /\ lastResult.some
  /\ lastResult.direction = "SHORT"
  /\ lastResult.confidence = 8
  /\ LET hourly_ma == calculate_sma(lastCall.closes_1h, hourly_ma_period)
     IN  lastCall.closes_15m[Len(lastCall.closes_15m)] * hourly_ma.den < hourly_ma.num

----------------------------------------------------------------------------
(* Claims about the matcher *)

\* the live row with index label i and the backtest row with index label j are
\* within both tolerances of each other
InTolerance(i, j) ==
  LET l == live_df[i + 1]
      b == bt_df[j + 1]
  IN  /\ l.dt.some /\ b.dt.some
      /\ Abs(l.dt.t - b.dt.t) <= 5 * 60
      /\ l.entry_price + b.entry_price > 0
      /\ 100 * 2 * Abs(l.entry_price - b.entry_price) <= 2 * (l.entry_price + b.entry_price)

\* C9: each backtest (reference) row and each live (candidate) row is in at most
\* one matched pair.
C9_OneToOne ==
  \A m \in DOMAIN pairs : \A n \in DOMAIN pairs :
    m # n => (pairs[m].bt_idx # pairs[n].bt_idx /\ pairs[m].idx # pairs[n].idx)

\* C9 witness: the pass is over, two live rows of the same symbol and direction
\* were both within tolerance of the only backtest row, and one pair was made.
C9_Witness ==
  /\ mpc = "done"
  /\ Len(bt_df) = 1
  /\ Len(live_df) = 2
  /\ \A i \in {0, 1} :
       /\ live_df[i + 1].symbol = bt_df[1].symbol
       /\ live_df[i + 1].direction = bt_df[1].direction
       /\ InTolerance(i, 0)
  /\ Len(pairs) = 1
  /\ metrics.matched = 1
  /\ metrics.unmatched_live = 1

\* C10: the two rows of every matched pair have the same symbol and the same
\* direction.
C10_SameSymbolAndDirection ==
  \A m \in DOMAIN pairs :
    /\ bt_df[pairs[m].bt_idx + 1].symbol = live_df[pairs[m].idx + 1].symbol
    /\ bt_df[pairs[m].bt_idx + 1].direction = live_df[pairs[m].idx + 1].direction

\* C10 witness: the pass is over, the only live row has the price and the time of
\* the only backtest row and its symbol but the other direction, and no pair
\* was made.
C10_Witness ==
  /\ mpc = "done"
  /\ Len(bt_df) = 1
  /\ Len(live_df) = 1
  /\ InTolerance(0, 0)
  /\ live_df[1].entry_price = bt_df[1].entry_price
  /\ live_df[1].dt = bt_df[1].dt
  /\ live_df[1].symbol = bt_df[1].symbol
  /\ live_df[1].direction # bt_df[1].direction
  /\ pairs = <<>>
  /\ metrics.unmatched_live = 1


\* the backtest rows already in a pair when the live row with index label i was
\* processed
ConsumedBefore(i) == {pairs[k].bt_idx : k \in {n \in DOMAIN pairs : pairs[n].idx < i}}

\* the backtest rows that could be paired with the live row with index label i
\* when it was processed: not yet in a pair, of its symbol and direction, and
\* within both tolerances of it
Eligible(i) ==
  {j \in 0..(Len(bt_df) - 1) :
     /\ j \notin ConsumedBefore(i)
     /\ bt_df[j + 1].symbol = live_df[i + 1].symbol
     /\ bt_df[j + 1].direction = live_df[i + 1].direction
     /\ InTolerance(i, j)}

\* the live rows in a pair
PairedLive == {pairs[m].idx : m \in DOMAIN pairs}

\* C11: the two rows of every matched pair are within both tolerances of each
\* other, bounds included: entry times at most 5 minutes apart and entry prices
\* at most 2% of their mean apart. With one row on each side, of the same
\* symbol and direction, the pair is made exactly when both hold, so a pair
\* at a bound is made and a pair beyond a bound is not.
C11_WithinTolerances ==
  /\ \A m \in DOMAIN pairs : InTolerance(pairs[m].idx, pairs[m].bt_idx)
  /\ (mpc = "done" /\ Len(bt_df) = 1 /\ Len(live_df) = 1) =>
       (pairs # <<>> <=> InTolerance(0, 0))

\* C11 witness: the pass is over with two pairs, one of rows exactly 5 minutes
\* apart, the other of rows exactly 2% of their mean apart.
C11_Witness ==
  /\ mpc = "done"
  /\ \E m \in DOMAIN pairs :
       Abs(live_df[pairs[m].idx + 1].dt.t - bt_df[pairs[m].bt_idx + 1].dt.t) = 5 * 60
  /\ \E m \in DOMAIN pairs :
       LET l == live_df[pairs[m].idx + 1].entry_price
           b == bt_df[pairs[m].bt_idx + 1].entry_price
       IN  l # b /\ 100 * 2 * Abs(l - b) = 2 * (l + b)

\* the score of the live row with index label i against the backtest row with
\* index label j, as a numerator and a denominator: the seconds between the
\* entry times plus 10000 times the price difference relative to the mean
ScoreNum(i, j) ==
  LET l == live_df[i + 1]
      b == bt_df[j + 1]
  IN  Abs(l.dt.t - b.dt.t) * (l.entry_price + b.entry_price)
        + 10000 * 2 * Abs(l.entry_price - b.entry_price)

ScoreDen(i, j) == live_df[i + 1].entry_price + bt_df[j + 1].entry_price

\* C12: the backtest row of every matched pair has the least score among the
\* backtest rows that, when the pair's live row was processed, were in no
\* pair, had its symbol and direction and were within both tolerances of it.
C12_LeastScore ==
  \A m \in DOMAIN pairs :
    LET i == pairs[m].idx
        j == pairs[m].bt_idx
    IN  /\ j \in Eligible(i)
        /\ \A k \in Eligible(i) :
             ScoreNum(i, j) * ScoreDen(i, k) <= ScoreNum(i, k) * ScoreDen(i, j)

\* C12 witness: the pass is over, the only live row had two backtest rows to
\* choose from, and it was paired with the second one, whose score is strictly
\* less than the first one's.
C12_Witness ==
  /\ mpc = "done"
  /\ Len(live_df) = 1
  /\ Eligible(0) = {0, 1}
  /\ ScoreNum(0, 1) * ScoreDen(0, 0) < ScoreNum(0, 0) * ScoreDen(0, 1)
  /\ pairs = <<[bt_idx |-> 1, idx |-> 0]>>

\* C13: a live row that was processed is in a pair exactly if, when it was
\* processed, some backtest row in no pair had its symbol and direction and
\* was within both tolerances of it. A backtest row entered at 10:00 at 100
\* and a live row of the same symbol and direction entered at 10:02 at 100.5
\* give one pair, of rows 120 s apart, and no unmatched row on either side.
C13_MatchedIffEligible ==
  /\ mpc # "raised" =>
       \A i \in 0..(idx - 1) : i \in PairedLive <=> Eligible(i) # {}
  /\ ( /\ mpc = "done"
       /\ bt_df = <<Row("BTCUSDT", "BUY", 200, Time(0))>>
       /\ live_df = <<Row("BTCUSDT", "BUY", 201, Time(120))>> ) =>
       ( /\ pairs = <<[bt_idx |-> 0, idx |-> 0]>>
         /\ metrics = [matched |-> 1, unmatched_live |-> 0, unmatched_bt |-> 0] )

\* C13 witness: the pass over the example is over with its one pair, and the
\* rows of the pair are 120 s apart.
C13_Witness ==
  /\ mpc = "done"
  /\ bt_df = <<Row("BTCUSDT", "BUY", 200, Time(0))>>
  /\ live_df = <<Row("BTCUSDT", "BUY", 201, Time(120))>>
  /\ Len(pairs) = 1
  /\ live_df[pairs[1].idx + 1].dt.t - bt_df[pairs[1].bt_idx + 1].dt.t = 120
  /\ metrics.matched = 1

\* the rows of a frame whose entry time did not parse
Unparsable(df) == {i \in 0..(Len(df) - 1) : ~df[i + 1].dt.some}

\* C14: when a pass is over, matched + unmatched_live is the number of live
\* rows and matched + unmatched_bt the number of backtest rows.
C14_Partition ==
  mpc = "done" =>
    /\ metrics.matched + metrics.unmatched_live = Len(live_df)
    /\ metrics.matched + metrics.unmatched_bt = Len(bt_df)

\* C15: a row whose entry time did not parse is in no pair, and when the pass
\* is over it is counted unmatched on its side: unmatched_live counts every
\* such live row and unmatched_bt every such backtest row.
C15_UnparsableIsUnmatched ==
  /\ \A m \in DOMAIN pairs :
       /\ pairs[m].idx \notin Unparsable(live_df)
       /\ pairs[m].bt_idx \notin Unparsable(bt_df)
  /\ mpc = "done" =>
       /\ metrics.unmatched_live >= Cardinality(Unparsable(live_df))
       /\ metrics.unmatched_bt >= Cardinality(Unparsable(bt_df))

C17_NoAbortOnZeroMean ==
  ~(mpc = "raised" /\ summary.error = "ZeroDivisionError")

\* C25: the live rows are taken in their order and no pairing is revised: a
\* step of the pass leaves the pairs made so far and the consumed backtest
\* rows as they are, and the pair it adds, if any, joins the live row whose
\* turn it is to a backtest row that was in no pair.
C25_GreedyInOrder ==
  [][ /\ idx' \in {idx, idx + 1}
      /\ matched_indices_bt \subseteq matched_indices_bt'
      /\ Len(pairs') >= Len(pairs)
      /\ SubSeq(pairs', 1, Len(pairs)) = pairs
      /\ Len(pairs') > Len(pairs) =>
           /\ Len(pairs') = Len(pairs) + 1
           /\ pairs'[Len(pairs')].idx = idx
           /\ idx' = idx + 1
           /\ pairs'[Len(pairs')].bt_idx \notin matched_indices_bt
           /\ matched_indices_bt' = matched_indices_bt \cup {pairs'[Len(pairs')].bt_idx} ]_vars

\* C25 witness: the pass is over; the first live row took the only backtest
\* row, against which the second live row has a strictly lower score, and
\* the second live row is unmatched.
C25_Witness ==
  /\ mpc = "done"
  /\ Len(bt_df) = 1
  /\ Len(live_df) = 2
  /\ InTolerance(0, 0)
  /\ InTolerance(1, 0)
  /\ ScoreNum(1, 0) * ScoreDen(0, 0) < ScoreNum(0, 0) * ScoreDen(1, 0)
  /\ pairs = <<[bt_idx |-> 0, idx |-> 0]>>
  /\ metrics.unmatched_live = 1


----------------------------------------------------------------------------
(* Claims about the live loop *)

\* C18: no iteration of the loop both closes a position and opens one.
C18_NoCloseAndOpen ==
  lastCall.name = "run_trading_loop" => ~(lastCall.exited /\ lastCall.entered)

\* C19: the file has at most one row per record on_trade_exit returned to the
\* loop, and every row has the keys of that record, in their order.
C19_RowsAreClosedTrades ==
  /\ Len(live_trades) <= positions_closed
  /\ \A r \in DOMAIN live_trades : live_trades[r].columns = TradeRecordColumns


\* C26: between iterations the loop's current_position agrees with the
\* engine: it is None exactly if the engine is FLAT, and otherwise it names
\* the direction of the engine's position.
C26_LoopAgreesWithEngine ==
  /\ current_position.some <=> position.some
  /\ current_position.some => current_position.str = position.direction


\* the entry order of the last iteration came back FILLED
OrderFilled == lastCall.order.some /\ lastCall.order.status = "FILLED"

\* C27: the loop has the engine record a position only in an iteration whose
\* entry order came back FILLED. In an iteration that began with
\* current_position None and whose entry order failed or came back with
\* another status, the engine's position is what it was, current_position is
\* still None and no row is written.
C27_EntryOnlyWhenFilled ==
  lastCall.name = "run_trading_loop" =>
    /\ lastCall.entered => OrderFilled
    /\ (~lastCall.was.some /\ ~OrderFilled) =>
         /\ position = prevPosition
         /\ current_position = None
         /\ Len(live_trades) = lastCall.rows

\* C27 witness: on a FLAT engine an entry signal was followed by an order
\* that came back PARTIALLY_FILLED, and nothing was recorded.
C27_Witness ==
  /\ lastCall.name = "run_trading_loop"
  /\ lastCall.signal.some
  /\ lastCall.signal.confidence = 7
  /\ lastCall.order.some
  /\ lastCall.order.status = "PARTIALLY_FILLED"
  /\ ~lastCall.was.some
  /\ position = None
  /\ current_position = None
  /\ live_trades = <<>>


\* C28: right after an entry made by the live loop or by the backtest adapter
\* the entry price lies strictly between the stop-loss and the take-profit of
\* the stored position, so that check_sl_tp at the entry price returns None.
C28_EntryBetweenSlAndTp ==
  (lastCall.name \in {"run_trading_loop", "next"} /\ lastCall.entered) =>
    /\ position.some
    /\ IF position.direction = "LONG"
       THEN position.stop_loss < position.entry_price
              /\ position.entry_price < position.take_profit
       ELSE position.take_profit < position.entry_price
              /\ position.entry_price < position.stop_loss
    /\ check_sl_tp(position, position.entry_price) = None

====
